---- MODULE Spec2Model ----
(***************************************************************************)
(* ArXivTweetBot2: the multi-search orchestrator (run_multiple_searches.py),*)
(* the single-keyword-set batch program (arxiv_downloader.py main), the    *)
(* per-paper pipeline (process_paper), the summary post-processing         *)
(* (ai_summarizer.generate_summary) and the post assembly                  *)
(* (twitter_poster.post_thread).                                           *)
(*                                                                         *)
(* Papers are numbered 1..NumPapers; the number is the arXiv identifier    *)
(* and papers with a larger number were submitted later.  Keyword sets are *)
(* numbered 1..NumSets in configuration order.  Optional values (Python's  *)
(* None) are sequences of length at most one.                              *)
(***************************************************************************)
EXTENDS Integers, Sequences, FiniteSets, TLC

\* ------------------------------------------------------------ bounds
NumPapers == 2
NumSets == 2
MaxPasses == 2
MaxTime == 2
MaxSummaryLen == 290
MaxIdLen == 14
MaxTokens == 4

Papers == 1..NumPapers
KeywordSets == 1..NumSets
\* Directory indices: 0 is the program's own ./dl (or ./logs) directory,
\* k >= 1 is ./pdf/<keywords of set k> (or ./logs/<keywords of set k>).
Dirs == 0..NumSets
Times == 0..MaxTime

None == <<>>
Some(x) == <<x>>
Range(s) == {s[i] : i \in 1..Len(s)}

\* ------------------------------------------------------------ the world
\* Submission time of a paper, and the papers a keyword set's query matches.
PubTime(p) == p
Matches(k) == {p \in Papers : p >= k}

VARIABLES
  \* clock
  now,
  \* files on disk
  markers,        \* processed/<id>.json
  processed_at,   \* processed_at[id]: the "processed_at" of that file
  pdf,            \* pdf[d]: the <id>.pdf files of directory d
  dlLink,         \* the directory ./dl points to
  textFiles,      \* text/<id>.txt
  summaryFiles,   \* summary/<id>_summary.json
  logs,           \* logs[d][id]: the <id>_twitter_log.json of log directory d
  tsFile,         \* last_run_timestamp.json
  idsFile,        \* processed_paper_ids.txt
  newIdsFile,     \* newIdsFile[k]: new_processed_ids_<set k>.txt (None: no
                  \* such file)
  \* config.yaml
  tweet_enabled, cfgValid,
  \* run_multiple_searches.main
  opc, passes, timestamps, processed_ids, all_new_processed_ids, setIdx,
  ranOrder, savedIds, savedTs,
  \* the sets of the pass after which main waited
  waitedAfter,
  \* run_search_set
  since_timestamp, current_timestamp, rssResult,
  \* arxiv_downloader.main
  dpc, args, papers, selIdx, papers_to_process, newly_processed_ids,
  processed_count, procIdx, exitCode, results,
  \* process_paper / generate_summary
  ppc, retry_count, backoff_time,
  \* generate_summary: the seconds slept after the last attempt (0: none)
  \* and the kind of failure of that attempt
  lastSleep, lastAttempt,
  \* calls made to the outside world during the current batch, per paper
  netFetch, extractCalls, pubCalls,
  \* what became of each paper in the current batch
  outcome,
  \* the papers whose summarization ran out of retries in the current pass
  summarizationFailed,
  \* per keyword set, the papers whose fetch failed in its last finished run
  prevFetchFailed,
  \* the last pass of the orchestrator was interrupted
  interrupted,
  \* per paper, the publish calls that succeeded since the beginning, over
  \* all runs: "never", "once" or "again"
  published,
  \* the post text of one paper: generate_summary, process_paper, post_thread
  tpc, summary_text, arxiv_id_text, post_text, tweet_text,
  \* the identifier of one paper: extract_arxiv_id on its pdf_url, and the
  \* identifier download_pdf returns for the same pdf_url
  lpc, pdf_url, resolved_id, arxiv_id_without_ext,
  \* the last run of web_generator.py: its log directory, its result, and
  \* the paper_info it made of each log record
  rendered,
  \* two invocations of arxiv_downloader.py at the same time, on one paper:
  \* where each is, what process_paper returned in each, the publish calls
  \* of each, whether a collaborator of its own failed in each, and the
  \* papers whose file in the download directory is open for writing
  cpc, cresult, cpubCalls, cownFailure, partial

diskVars == <<markers, processed_at, pdf, dlLink, textFiles, summaryFiles, logs, tsFile,
              idsFile, newIdsFile>>
cfgVars == <<tweet_enabled, cfgValid>>
orchVars == <<opc, passes, timestamps, processed_ids, all_new_processed_ids,
              setIdx, ranOrder, waitedAfter, savedIds, savedTs>>
rssVars == <<since_timestamp, current_timestamp, rssResult>>
dlVars == <<dpc, args, papers, selIdx, papers_to_process,
            newly_processed_ids, processed_count, procIdx, exitCode, results>>
ppVars == <<ppc, retry_count, backoff_time, lastSleep, lastAttempt>>
callVars == <<netFetch, extractCalls, pubCalls, outcome>>
histVars == <<summarizationFailed, prevFetchFailed, interrupted, published>>
locVars == <<lpc, pdf_url, resolved_id, arxiv_id_without_ext>>
webVars == <<rendered>>
conVars == <<cpc, cresult, cpubCalls, cownFailure, partial>>
textVars == <<tpc, summary_text, arxiv_id_text, post_text, tweet_text, locVars,
              webVars, conVars>>
programVars == <<now, diskVars, cfgVars, orchVars, rssVars, dlVars, ppVars,
                 callVars, histVars>>
vars == <<programVars, textVars>>

\* A sleep: the clock (in coarse units) stays or moves on by one.
Sleep(d) == now' = IF now + d <= MaxTime THEN now + d ELSE now

NoCalls == [p \in Papers |-> 0]
NoOutcome == [p \in Papers |-> "none"]
NoArgs == [set |-> 0, force_download |-> FALSE, force_process |-> FALSE,
           skip_twitter |-> FALSE,
           max_results |-> 0, max_process |-> 0, since_timestamp |-> None,
           last_paper_id |-> None, processed_ids |-> {},
           output_processed_ids |-> FALSE, log_dir |-> 0]
NoLogs == [d \in Dirs |-> [p \in Papers |-> "none"]]

\* ------------------------------------------------------------ arxiv_downloader.py
\* A variant of is_processed that consults the preloaded id set only.
is_processed_ids_only(arxiv_id, ids) == ids # {} /\ arxiv_id \in ids

\* A variant of is_processed that looks at the marker files only.
is_processed_marker_only(arxiv_id, ids) == arxiv_id \in markers

\* A variant of is_processed that finds nothing processed.
is_processed_never(arxiv_id, ids) == FALSE

\* A variant of is_processed that asks for both the preloaded id and the
\* marker file.
is_processed_when_both(arxiv_id, ids) == arxiv_id \in ids /\ arxiv_id \in markers

\* is_processed: in the preloaded id set, or a marker file exists.
is_processed(arxiv_id, ids) ==
  IF ids # {} /\ arxiv_id \in ids THEN TRUE ELSE arxiv_id \in markers

\* The provider's answer, newest submission first.
RECURSIVE SortedBySubmittedDate(_)
SortedBySubmittedDate(S) ==
  IF S = {} THEN <<>>
  ELSE LET p == CHOOSE x \in S : \A y \in S :
                  PubTime(y) < PubTime(x) \/ (PubTime(y) = PubTime(x) /\ y <= x)
       IN <<p>> \o SortedBySubmittedDate(S \ {p})

Take(s, n) == IF Len(s) <= n THEN s ELSE SubSeq(s, 1, n)

\* search_arxiv, lines 152-178: what the provider returns for the query
\* (keywords, submittedDate:[since TO *]), sorted by submission date and cut
\* to max_results.
ProviderResults(k, max_results, since) ==
  LET hits == {p \in Matches(k) :
                 /\ PubTime(p) <= now
                 /\ (since # None => PubTime(p) >= since[1])}
  IN Take(SortedBySubmittedDate(hits), max_results)

\* A variant of IdAfter that lets the bound itself through.
IdAfter_or_equal(paper_id, last_paper_id) == paper_id >= last_paper_id

\* search_arxiv, line 185: paper_id > last_paper_id (the identifiers of the
\* model are numbered in the order of their strings).
IdAfter(paper_id, last_paper_id) == paper_id > last_paper_id

\* search_arxiv: the provider's results, then the last_paper_id filter
\* (lines 180-189).
search_arxiv(k, max_results, since, last_paper_id) ==
  LET found == ProviderResults(k, max_results, since)
  IN IF last_paper_id # None
       THEN SelectSeq(found, LAMBDA p : IdAfter(p, last_paper_id[1]))
       ELSE found

DefaultMaxResults == 100
CliDefaultMaxResults == 200
UnlimitedMaxProcess == 9999
max_retries == 3
InitialBackoff == 2

\* download_pdf's force_download parameter: both calls (lines 270 and 552)
\* leave it out, so it has its default (line 194); args.force_download is
\* not read anywhere.
force_download == FALSE

\* download_pdf, lines 222-225: the file in the download directory is
\* reused.
Reused(p) == p \in pdf[dlLink] /\ ~force_download

\* copy_pdf_if_exists: some ./pdf/* directory holds the file.
HasSiblingCopy(p) == \E d \in KeywordSets : p \in pdf[d]

\* The in-memory state of a new, or of an ended, arxiv_downloader.py process.
FreshProcess(a, pc) ==
  /\ args' = a
  /\ dpc' = pc
  /\ papers' = <<>>
  /\ selIdx' = 1
  /\ papers_to_process' = <<>>
  /\ newly_processed_ids' = {}
  /\ processed_count' = 0
  /\ procIdx' = 1
  /\ exitCode' = None
  /\ results' = <<>>
  /\ ppc' = "idle"
  /\ retry_count' = 0
  /\ backoff_time' = 0
  /\ lastSleep' = 0
  /\ lastAttempt' = "none"
  /\ netFetch' = NoCalls
  /\ extractCalls' = NoCalls
  /\ pubCalls' = NoCalls
  /\ outcome' = NoOutcome

StartDownloader(a) == FreshProcess(a, "search")
ProcessGone == FreshProcess(NoArgs, "none")

\* main, lines 472-513: setup (config, OpenAI client), the preloaded ids, the
\* search.  A setup or search error ends the process with a non-zero code.
DlSearch ==
  /\ dpc = "search"
  /\ \E ok \in BOOLEAN :
       IF ~ok
         THEN /\ dpc' = "exited"
              /\ exitCode' = Some(1)
              /\ UNCHANGED <<papers, selIdx>>
         ELSE LET found == search_arxiv(args.set, args.max_results,
                                        args.since_timestamp, args.last_paper_id)
              IN /\ papers' = found
                 /\ selIdx' = 1
                 /\ IF found = <<>>
                      THEN dpc' = "exited" /\ exitCode' = Some(0)
                      ELSE dpc' = "select" /\ exitCode' = None
  /\ UNCHANGED <<now, diskVars, cfgVars, orchVars, rssVars, args,
                 papers_to_process, newly_processed_ids, processed_count,
                 procIdx, results, ppVars, callVars, histVars>>
  /\ UNCHANGED textVars

\* A variant of CapReached: the selection loop has no cap.
CapReached_never == FALSE

\* main, lines 542-543: the selection loop breaks once max_process_count
\* papers are selected.
CapReached == processed_count >= args.max_process

\* main, lines 541-559: one iteration of the selection loop.
\* copy_pdf_if_exists first, download_pdf when nothing was copied; a paper
\* whose download fails is passed over.
DlSelect ==
  /\ dpc = "select"
  /\ selIdx <= Len(papers)
  /\ ~CapReached
  /\ LET p == papers[selIdx] IN
       IF ~is_processed(p, args.processed_ids) \/ args.force_process
         THEN \E copyOk \in BOOLEAN, fetchOk \in BOOLEAN :
                LET copied == HasSiblingCopy(p) /\ (p \in pdf[dlLink] \/ copyOk)
                    present == copied \/ Reused(p)
                    got == present \/ fetchOk
                IN /\ pdf' = IF got THEN [pdf EXCEPT ![dlLink] = @ \cup {p}]
                                    ELSE pdf
                   /\ netFetch' = IF present THEN netFetch
                                  ELSE [netFetch EXCEPT ![p] = @ + 1]
                   /\ IF got
                        THEN /\ papers_to_process' = Append(papers_to_process, p)
                             /\ newly_processed_ids' = newly_processed_ids \cup {p}
                             /\ processed_count' = processed_count + 1
                             /\ outcome' = [outcome EXCEPT ![p] = "selected"]
                        ELSE /\ outcome' = [outcome EXCEPT ![p] = "fetch_failed"]
                             /\ UNCHANGED <<papers_to_process,
                                            newly_processed_ids, processed_count>>
         ELSE UNCHANGED <<pdf, netFetch, outcome, papers_to_process,
                          newly_processed_ids, processed_count>>
  /\ selIdx' = selIdx + 1
  /\ UNCHANGED <<now, markers, processed_at, dlLink, textFiles, summaryFiles, logs, tsFile,
                 idsFile, newIdsFile, cfgVars, orchVars, rssVars, dpc, args,
                 papers, procIdx, exitCode, results, ppVars, extractCalls,
                 pubCalls, histVars>>
  /\ UNCHANGED textVars

\* main, lines 542-543 and 561-566: the selection loop ends.
DlSelected ==
  /\ dpc = "select"
  /\ selIdx > Len(papers) \/ CapReached
  /\ IF papers_to_process = <<>>
       THEN dpc' = "exited" /\ exitCode' = Some(0) /\ ppc' = ppc
       ELSE dpc' = "process" /\ exitCode' = None /\ ppc' = "download"
  /\ procIdx' = 1
  /\ UNCHANGED <<now, diskVars, cfgVars, orchVars, rssVars, args, papers,
                 selIdx, papers_to_process, newly_processed_ids,
                 processed_count, results, retry_count, backoff_time, lastSleep, lastAttempt,
                 callVars, histVars>>
  /\ UNCHANGED textVars

\* ------------------------------------------------------------ process_paper
\* The paper the processing loop is at, and lines 569-570 for it.
CurrentPaper == papers_to_process[procIdx]
is_last_paper == procIdx = Len(papers_to_process)
\* Variants of current_skip_twitter: the flag alone, and no publish at all.
skip_twitter_flag_only == args.skip_twitter
skip_twitter_always == TRUE
current_skip_twitter == args.skip_twitter \/ ~is_last_paper

\* process_paper returns: its result is kept for the loop in main.
Return(value, what) ==
  /\ ppc' = "returned"
  /\ results' = Append(results, value)
  /\ outcome' = [outcome EXCEPT ![CurrentPaper] = what]

\* Lines 267-275: download_pdf; an existing file is reused without a fetch.
PpDownload ==
  /\ dpc = "process" /\ ppc = "download"
  /\ LET p == CurrentPaper IN
       IF Reused(p)
         THEN /\ ppc' = "check"
              /\ UNCHANGED <<pdf, netFetch, outcome, results>>
         ELSE \E fetchOk \in BOOLEAN :
                /\ netFetch' = [netFetch EXCEPT ![p] = @ + 1]
                /\ IF fetchOk
                     THEN /\ pdf' = [pdf EXCEPT ![dlLink] = @ \cup {p}]
                          /\ ppc' = "check"
                          /\ UNCHANGED <<outcome, results>>
                     ELSE /\ Return(FALSE, "fetch_failed")
                          /\ UNCHANGED pdf
  /\ UNCHANGED <<now, markers, processed_at, dlLink, textFiles, summaryFiles, logs, tsFile,
                 idsFile, newIdsFile, cfgVars, orchVars, rssVars, dpc, args,
                 papers, selIdx, papers_to_process, newly_processed_ids,
                 processed_count, procIdx, exitCode, retry_count,
                 backoff_time, lastSleep, lastAttempt, extractCalls, pubCalls, histVars>>
  /\ UNCHANGED textVars

\* A variant of AlreadyProcessed: process_paper has no skip check.
AlreadyProcessed_never(p) == FALSE

\* A variant of AlreadyProcessed that does not look at the flag.
AlreadyProcessed_whatever_the_flag(p) == is_processed(p, {})

\* Line 278: the test of the skip check, on the marker file alone.
AlreadyProcessed(p) == is_processed(p, {}) /\ ~args.force_process

\* Lines 277-280: the skip check.
PpCheck ==
  /\ dpc = "process" /\ ppc = "check"
  /\ IF AlreadyProcessed(CurrentPaper)
       THEN Return(TRUE, "skipped")
       ELSE ppc' = "extract" /\ UNCHANGED <<results, outcome>>
  /\ UNCHANGED <<now, diskVars, cfgVars, orchVars, rssVars, dpc, args, papers,
                 selIdx, papers_to_process, newly_processed_ids,
                 processed_count, procIdx, exitCode, retry_count,
                 backoff_time, lastSleep, lastAttempt, netFetch, extractCalls, pubCalls, histVars>>
  /\ UNCHANGED textVars

\* A variant of ExtractionFailed: the extraction is tried again.
extraction_retried == UNCHANGED <<ppc, results, outcome>>

\* Lines 288-290: no text file, process_paper returns False.
ExtractionFailed == Return(FALSE, "extract_failed")

\* Lines 282-290: extract_text_from_pdf writes the text file or fails.
PpExtract ==
  /\ dpc = "process" /\ ppc = "extract"
  /\ LET p == CurrentPaper IN
       /\ extractCalls' = [extractCalls EXCEPT ![p] = @ + 1]
       /\ \E ok \in BOOLEAN :
            IF ok
              THEN /\ textFiles' = textFiles \cup {p}
                   /\ ppc' = "summarize"
                   /\ retry_count' = 0
                   /\ backoff_time' = InitialBackoff
                   /\ lastSleep' = 0
                   /\ lastAttempt' = "none"
                   /\ UNCHANGED <<results, outcome>>
              ELSE /\ ExtractionFailed
                   /\ UNCHANGED <<textFiles, retry_count, backoff_time, lastSleep, lastAttempt>>
  /\ UNCHANGED <<now, markers, processed_at, pdf, dlLink, summaryFiles, logs, tsFile,
                 idsFile, newIdsFile, cfgVars, orchVars, rssVars, dpc, args,
                 papers, selIdx, papers_to_process, newly_processed_ids,
                 processed_count, procIdx, exitCode, netFetch, pubCalls,
                 histVars>>
  /\ UNCHANGED textVars

\* A variant of NextBackoff: the wait stays the same.
NextBackoff_constant == backoff_time

\* generate_summary, line 73: the backoff doubles.
NextBackoff == backoff_time * 2

\* generate_summary, lines 42-73 and 107-113: one attempt of the API call.
\* A success writes the summary file; an answer that cannot be used or
\* saved (lines 75-113 raise) and the last failed attempt make
\* generate_summary return None (lines 115-117) and process_paper return
\* False (lines 307-309); a failed attempt with attempts left sleeps the
\* backoff and doubles it.
PpSummarize ==
  /\ dpc = "process" /\ ppc = "summarize"
  /\ retry_count < max_retries
  /\ LET p == CurrentPaper IN
       \E kind \in {"ok", "unsaved", "rate_limit", "error"} :
         IF kind = "ok"
           THEN /\ summaryFiles' = summaryFiles \cup {p}
                /\ ppc' = "publish"
                /\ retry_count' = 0
                /\ backoff_time' = 0
                /\ lastSleep' = 0
                /\ lastAttempt' = "none"
                /\ UNCHANGED <<now, results, outcome, summarizationFailed>>
         ELSE IF kind = "unsaved"
           THEN /\ Return(FALSE, "summary_unsaved")
                /\ retry_count' = 0
                /\ backoff_time' = 0
                /\ lastSleep' = 0
                /\ lastAttempt' = "none"
                /\ UNCHANGED <<now, summaryFiles, summarizationFailed>>
           ELSE /\ UNCHANGED summaryFiles
                /\ IF retry_count + 1 >= max_retries
                     THEN /\ Return(FALSE, "summarize_failed")
                          /\ summarizationFailed' = summarizationFailed \cup {p}
                          /\ retry_count' = 0
                          /\ backoff_time' = 0
                          /\ lastSleep' = 0
                          /\ lastAttempt' = "none"
                          /\ UNCHANGED now
                     ELSE /\ retry_count' = retry_count + 1
                          /\ \E d \in {0, 1} : Sleep(d)
                          /\ lastSleep' = backoff_time
                          /\ backoff_time' = NextBackoff
                          /\ lastAttempt' = kind
                          /\ UNCHANGED <<ppc, results, outcome,
                                         summarizationFailed>>
  /\ UNCHANGED <<markers, processed_at, pdf, dlLink, textFiles, logs, tsFile, idsFile,
                 newIdsFile, cfgVars, orchVars, rssVars, dpc, args, papers,
                 selIdx, papers_to_process, newly_processed_ids,
                 processed_count, procIdx, exitCode, netFetch, extractCalls,
                 pubCalls, prevFetchFailed, interrupted, published>>
  /\ UNCHANGED textVars

\* A variant of PublishFailed: the failure is passed over.
publish_failure_ignored == ppc' = "mark" /\ UNCHANGED <<results, outcome>>

\* Lines 331-334: post_thread returned False, process_paper returns False.
PublishFailed == Return(FALSE, "publish_failed")

\* A variant of SkipLogRecord: the record of a failure.
SkipLogRecord_as_failure == "error"

\* A variant of SkipLogRecord: no record.
SkipLogRecord_absent == "none"

\* Lines 338-350: the record of a skipped publish, "tweets": [] and no
\* "error" ("posted": a record with the tweets; "error": a record with the
\* error text, twitter_poster.py 109-120).
SkipLogRecord == "skipped"

\* The count of successful publish calls after one more: never, once, again.
OnceMore(count) == IF count = "never" THEN "once" ELSE "again"

\* Lines 329-350: post_thread (which writes the log record of its outcome),
\* or the log record of a skipped publish.
PpPublish ==
  /\ dpc = "process" /\ ppc = "publish"
  /\ LET p == CurrentPaper IN
       IF ~current_skip_twitter
         THEN /\ pubCalls' = [pubCalls EXCEPT ![p] = @ + 1]
              /\ \E ok \in BOOLEAN :
                   IF ok
                     THEN /\ logs' = [logs EXCEPT ![args.log_dir][p] = "posted"]
                          /\ published' = [published EXCEPT ![p] = OnceMore(@)]
                          /\ ppc' = "mark"
                          /\ UNCHANGED <<results, outcome>>
                     ELSE /\ logs' = [logs EXCEPT ![args.log_dir][p] = "error"]
                          /\ PublishFailed
                          /\ UNCHANGED published
         ELSE /\ logs' = [logs EXCEPT ![args.log_dir][p] = SkipLogRecord]
              /\ ppc' = "mark"
              /\ UNCHANGED <<pubCalls, results, outcome, published>>
  /\ UNCHANGED <<now, markers, processed_at, pdf, dlLink, textFiles, summaryFiles, tsFile,
                 idsFile, newIdsFile, cfgVars, orchVars, rssVars, dpc, args,
                 papers, selIdx, papers_to_process, newly_processed_ids,
                 processed_count, procIdx, exitCode, retry_count,
                 backoff_time, lastSleep, lastAttempt, netFetch, extractCalls,
                 summarizationFailed, prevFetchFailed, interrupted>>
  /\ UNCHANGED textVars

\* A variant of mark_as_processed that leaves the new marker alone in the
\* directory.
mark_as_processed_alone(arxiv_id) == {arxiv_id}

\* A variant of mark_as_processed that writes no marker.
mark_as_processed_nothing(arxiv_id) == markers

\* mark_as_processed, lines 103-115: the marker files after the call; the
\* file is named by the id and opened with mode 'w', so an existing one is
\* written over.
mark_as_processed(arxiv_id) == markers \cup {arxiv_id}

\* Lines 352-355: mark_as_processed, then return True.
PpMark ==
  /\ dpc = "process" /\ ppc = "mark"
  /\ markers' = mark_as_processed(CurrentPaper)
  /\ processed_at' = [processed_at EXCEPT ![CurrentPaper] = Some(now)]
  /\ Return(TRUE, "done")
  /\ UNCHANGED <<now, pdf, dlLink, textFiles, summaryFiles, logs, tsFile,
                 idsFile, newIdsFile, cfgVars, orchVars, rssVars, dpc, args,
                 papers, selIdx, papers_to_process, newly_processed_ids,
                 processed_count, procIdx, exitCode, retry_count,
                 backoff_time, lastSleep, lastAttempt, netFetch, extractCalls, pubCalls, histVars>>
  /\ UNCHANGED textVars

\* A file write of process_paper that no try statement covers raises: the
\* record of a skipped publish (lines 347-348), the marker
\* (mark_as_processed, lines 112-113), or the error record that post_thread
\* writes inside its except clause (twitter_poster.py 119-120, after the
\* publish call).  Neither process_paper nor main catches it: the process
\* ends with a traceback and a non-zero code.
PpRaises ==
  /\ dpc = "process" /\ ppc \in {"publish", "mark"}
  /\ LET p == CurrentPaper IN
       /\ pubCalls' = IF ppc = "publish" /\ ~current_skip_twitter
                        THEN [pubCalls EXCEPT ![p] = @ + 1]
                        ELSE pubCalls
       /\ outcome' = [outcome EXCEPT ![p] = "raised"]
  /\ dpc' = "exited"
  /\ exitCode' = Some(1)
  /\ ppc' = "idle"
  /\ UNCHANGED <<now, diskVars, cfgVars, orchVars, rssVars, args, papers,
                 selIdx, papers_to_process, newly_processed_ids,
                 processed_count, procIdx, results, retry_count,
                 backoff_time, lastSleep, lastAttempt, netFetch,
                 extractCalls, histVars>>
  /\ UNCHANGED textVars

\* main, lines 583-594: after process_paper, the fixed wait, then the next
\* paper or the end of the loop.
DlNextPaper ==
  /\ dpc = "process" /\ ppc = "returned"
  /\ \E d \in {0, 1} : Sleep(d)
  /\ IF is_last_paper
       THEN dpc' = "finish" /\ ppc' = "idle" /\ procIdx' = procIdx
       ELSE dpc' = dpc /\ ppc' = "download" /\ procIdx' = procIdx + 1
  /\ UNCHANGED <<diskVars, cfgVars, orchVars, rssVars, args, papers, selIdx,
                 papers_to_process, newly_processed_ids, processed_count,
                 exitCode, results, retry_count, backoff_time, lastSleep, lastAttempt, callVars,
                 histVars>>
  /\ UNCHANGED textVars

\* main, lines 596-602: the flag behind the final "Twitter投稿: あり/なし".
twitter_posted == ~args.skip_twitter /\ Len(papers_to_process) > 0

\* main, line 610: the count in the final "処理完了: N/M件の論文を処理しました".
ReportedProcessed == processed_count

\* main, lines 596-611: the ids handed back, the final report (a function of
\* the state at this point: twitter_posted and ReportedProcessed), and a
\* normal exit.
DlFinish ==
  /\ dpc = "finish"
  /\ newIdsFile' = IF args.output_processed_ids /\ newly_processed_ids # {}
                     THEN [newIdsFile EXCEPT
                             ![args.set] = Some(newly_processed_ids)]
                     ELSE newIdsFile
  /\ dpc' = "exited"
  /\ exitCode' = Some(0)
  /\ UNCHANGED <<now, markers, processed_at, pdf, dlLink, textFiles, summaryFiles, logs,
                 tsFile, idsFile, cfgVars, orchVars, rssVars, args, papers,
                 selIdx, papers_to_process, newly_processed_ids,
                 processed_count, procIdx, results, ppVars, callVars, histVars>>
  /\ UNCHANGED textVars

\* ------------------------------------------------------------ run_multiple_searches.py
EmptyMap == [k \in {} |-> None]
NoResult == [raised |-> FALSE, success |-> FALSE, new_processed_ids |-> {}]

\* load_processed_ids, lines 76-87: the ids of the file, or the empty set
\* when there is no file or when reading it raises (logged only).
load_processed_ids(readOk) == IF readOk THEN idsFile ELSE {}

\* main, lines 258-289: load the watermark map and the ledger-id set.
StartPass ==
  /\ opc = "idle"
  /\ dpc = "none"
  /\ passes < MaxPasses
  /\ \E d \in {0, 1} : Sleep(d)
  /\ timestamps' = tsFile
  /\ \E readOk \in BOOLEAN : processed_ids' = load_processed_ids(readOk)
  /\ all_new_processed_ids' = {}
  /\ setIdx' = 1
  /\ ranOrder' = <<>>
  /\ waitedAfter' = <<>>
  /\ savedIds' = FALSE
  /\ savedTs' = FALSE
  /\ opc' = "loop"
  /\ UNCHANGED <<diskVars, cfgVars, passes, rssVars, dlVars, ppVars,
                 callVars, histVars>>
  /\ UNCHANGED textVars

\* main, lines 293-300: a set without keywords or output directory is skipped.
MainSkipSet ==
  /\ opc = "loop"
  /\ setIdx <= NumSets
  /\ ~cfgValid[setIdx]
  /\ setIdx' = setIdx + 1
  /\ UNCHANGED <<now, diskVars, cfgVars, opc, passes, timestamps,
                 processed_ids, all_new_processed_ids, ranOrder, waitedAfter, savedIds,
                 savedTs, rssVars, dlVars, ppVars, callVars, histVars>>
  /\ UNCHANGED textVars

\* run_search_set, lines 101-171: the download directory, the stored
\* watermark, the run-start timestamp, and the launch of arxiv_downloader.py.
RunSearchSet ==
  /\ opc = "loop"
  /\ setIdx <= NumSets
  /\ cfgValid[setIdx]
  /\ LET k == setIdx
         stored == IF k \in DOMAIN timestamps
                     THEN timestamps[k].timestamp ELSE None
         last_id == IF k \in DOMAIN timestamps
                      THEN timestamps[k].last_paper_id ELSE None
     IN /\ dlLink' = k
        /\ pdf' = [pdf EXCEPT ![0] = {}]
        /\ since_timestamp' = stored
        /\ current_timestamp' = now
        /\ StartDownloader([set |-> k,
                            force_download |-> FALSE,
                            force_process |-> FALSE,
                            skip_twitter |-> ~tweet_enabled[k],
                            max_results |-> DefaultMaxResults,
                            max_process |-> UnlimitedMaxProcess,
                            since_timestamp |-> stored,
                            last_paper_id |-> last_id,
                            processed_ids |-> processed_ids,
                            output_processed_ids |-> TRUE,
                            log_dir |-> k])
        /\ ranOrder' = Append(ranOrder, k)
        /\ waitedAfter' = waitedAfter
  /\ rssResult' = NoResult
  /\ opc' = "subprocess"
  /\ UNCHANGED <<now, markers, processed_at, textFiles, summaryFiles, logs, tsFile, idsFile,
                 newIdsFile, cfgVars, passes, timestamps, processed_ids,
                 all_new_processed_ids, setIdx, savedIds, savedTs, histVars>>
  /\ UNCHANGED textVars

\* run_search_set raises (the directory or temporary-file operations of
\* lines 102-131 fail); main's except clause, lines 324-325, catches it.
RunSearchSetRaises ==
  /\ opc = "loop"
  /\ setIdx <= NumSets
  /\ cfgValid[setIdx]
  /\ ranOrder' = Append(ranOrder, setIdx)
  /\ waitedAfter' = waitedAfter
  /\ rssResult' = [raised |-> TRUE, success |-> FALSE, new_processed_ids |-> {}]
  /\ opc' = "afterset"
  /\ UNCHANGED <<now, diskVars, cfgVars, passes, timestamps, processed_ids,
                 all_new_processed_ids, setIdx, savedIds, savedTs,
                 since_timestamp, current_timestamp, dlVars, ppVars,
                 callVars, histVars>>
  /\ UNCHANGED textVars

\* A variant of NewWatermark: the time at which the run completes.
watermark_at_completion == now

\* Lines 190-195: the timestamp stored for the set is the one captured at
\* line 124, before the subprocess was started.
NewWatermark == current_timestamp

\* run_search_set, lines 173-219: after the subprocess; a non-zero exit
\* returns (False, {}); otherwise the new ids are read, the watermark is
\* set to the run-start timestamp, and web_generator.py is run.
RunSearchSetReturns ==
  /\ opc = "subprocess"
  /\ dpc = "exited"
  /\ LET k == setIdx IN
       /\ IF exitCode # Some(0)
            THEN /\ rssResult' = NoResult
                 /\ UNCHANGED <<timestamps, newIdsFile>>
            ELSE \E webOk \in BOOLEAN :
                   /\ rssResult' =
                        [raised |-> FALSE, success |-> webOk,
                         new_processed_ids |->
                           IF newIdsFile[k] # None THEN newIdsFile[k][1]
                           ELSE {}]
                   /\ newIdsFile' = [newIdsFile EXCEPT ![k] = None]
                   /\ timestamps' =
                        (k :> [timestamp |-> Some(NewWatermark),
                               last_paper_id |-> None]) @@ timestamps
       /\ prevFetchFailed' =
            [prevFetchFailed EXCEPT
               ![k] = {p \in Papers : outcome[p] = "fetch_failed"}]
  /\ ProcessGone
  /\ opc' = "afterset"
  /\ UNCHANGED <<now, markers, processed_at, pdf, dlLink, textFiles, summaryFiles, logs,
                 tsFile, idsFile, cfgVars, passes, processed_ids,
                 all_new_processed_ids, setIdx, ranOrder, waitedAfter, savedIds, savedTs,
                 since_timestamp, current_timestamp, summarizationFailed,
                 interrupted, published>>
  /\ UNCHANGED textVars

\* A variant of NextSetIndex: a failed set ends the loop.
NextSetIndex_abort_on_failure ==
  IF rssResult.success THEN setIdx + 1 ELSE NumSets + 1

\* main, line 292: the for loop goes on to the next configured set,
\* whatever the result of this one (lines 322-325 only log).
NextSetIndex == setIdx + 1

\* main, line 327: the test before the wait, on the index of the set among
\* the configured sets.
WaitsAfterSet == setIdx < NumSets

\* main, lines 319-330: merge the new ids, wait unless this was the last
\* configured set, go on to the next set.
MainAfterSet ==
  /\ opc = "afterset"
  /\ all_new_processed_ids' =
       IF rssResult.raised THEN all_new_processed_ids
       ELSE all_new_processed_ids \cup rssResult.new_processed_ids
  /\ IF WaitsAfterSet
       THEN /\ \E d \in {0, 1} : Sleep(d)
            /\ waitedAfter' = Append(waitedAfter, setIdx)
       ELSE UNCHANGED <<now, waitedAfter>>
  /\ setIdx' = NextSetIndex
  /\ opc' = "loop"
  /\ since_timestamp' = None
  /\ current_timestamp' = 0
  /\ rssResult' = NoResult
  /\ UNCHANGED <<diskVars, cfgVars, passes, timestamps, processed_ids,
                 ranOrder, savedIds, savedTs, dlVars, ppVars,
                 callVars, histVars>>
  /\ UNCHANGED textVars

\* A variant of LoopEnded: the saves may follow any set.
LoopEnded_after_any_set == setIdx > 1

\* main, lines 292-330: the for loop has gone through every configured set.
LoopEnded == setIdx > NumSets

\* A variant of UpdatedIds: the ids of this pass alone.
UpdatedIds_of_this_pass == all_new_processed_ids

\* main, line 333: processed_ids.update(all_new_processed_ids).
UpdatedIds == processed_ids \cup all_new_processed_ids

\* main, lines 332-334: save_processed_ids; a write error is logged only.
MainSaveIds ==
  /\ opc = "loop"
  /\ LoopEnded
  /\ processed_ids' = UpdatedIds
  /\ \E ok \in BOOLEAN :
       idsFile' = IF ok THEN UpdatedIds ELSE idsFile
  /\ savedIds' = TRUE
  /\ opc' = "savets"
  /\ UNCHANGED <<now, markers, processed_at, pdf, dlLink, textFiles, summaryFiles, logs,
                 tsFile, newIdsFile, cfgVars, passes, timestamps,
                 all_new_processed_ids, setIdx, ranOrder, waitedAfter, savedTs, rssVars,
                 dlVars, ppVars, callVars, histVars>>
  /\ UNCHANGED textVars

\* main, lines 336-339: save_timestamps; a write error is logged only.
MainSaveTimestamps ==
  /\ opc = "savets"
  /\ \E ok \in BOOLEAN : tsFile' = IF ok THEN timestamps ELSE tsFile
  /\ savedTs' = TRUE
  /\ opc' = "done"
  /\ UNCHANGED <<now, markers, processed_at, pdf, dlLink, textFiles, summaryFiles, logs,
                 idsFile, newIdsFile, cfgVars, passes, timestamps,
                 processed_ids, all_new_processed_ids, setIdx, ranOrder, waitedAfter,
                 savedIds, rssVars, dlVars, ppVars, callVars, histVars>>
  /\ UNCHANGED textVars

\* main returns: the orchestrator process ends and its memory is gone.
MainExit ==
  /\ opc = "done"
  /\ opc' = "idle"
  /\ passes' = passes + 1
  /\ timestamps' = EmptyMap
  /\ processed_ids' = {}
  /\ all_new_processed_ids' = {}
  /\ setIdx' = 1
  /\ ranOrder' = <<>>
  /\ waitedAfter' = <<>>
  /\ savedIds' = FALSE
  /\ savedTs' = FALSE
  /\ summarizationFailed' = {}
  /\ interrupted' = FALSE
  /\ UNCHANGED <<now, diskVars, cfgVars, rssVars, dlVars, ppVars, callVars,
                 prevFetchFailed, published>>
  /\ UNCHANGED textVars

\* The orchestrator is interrupted during a pass (a signal, a crash of the
\* machine): main has no handler, so the process and its subprocess end
\* where they are and nothing more is written.
Interrupt ==
  /\ opc \in {"loop", "subprocess", "afterset", "savets"}
  /\ ProcessGone
  /\ opc' = "idle"
  /\ passes' = passes + 1
  /\ timestamps' = EmptyMap
  /\ processed_ids' = {}
  /\ all_new_processed_ids' = {}
  /\ setIdx' = 1
  /\ ranOrder' = <<>>
  /\ waitedAfter' = <<>>
  /\ savedIds' = FALSE
  /\ savedTs' = FALSE
  /\ since_timestamp' = None
  /\ current_timestamp' = 0
  /\ rssResult' = NoResult
  /\ summarizationFailed' = {}
  /\ interrupted' = TRUE
  /\ UNCHANGED <<now, diskVars, cfgVars, prevFetchFailed, published>>
  /\ UNCHANGED textVars

\* ------------------------------------------------------------ specification
\* No process is running and none has run.
InitMemory ==
  /\ now = 1
  /\ opc = "idle"
  /\ passes = 0
  /\ timestamps = EmptyMap
  /\ processed_ids = {}
  /\ all_new_processed_ids = {}
  /\ setIdx = 1
  /\ ranOrder = <<>>
  /\ waitedAfter = <<>>
  /\ savedIds = FALSE
  /\ savedTs = FALSE
  /\ since_timestamp = None
  /\ current_timestamp = 0
  /\ rssResult = NoResult
  /\ dpc = "none"
  /\ args = NoArgs
  /\ papers = <<>>
  /\ selIdx = 1
  /\ papers_to_process = <<>>
  /\ newly_processed_ids = {}
  /\ processed_count = 0
  /\ procIdx = 1
  /\ exitCode = None
  /\ results = <<>>
  /\ ppc = "idle"
  /\ retry_count = 0
  /\ backoff_time = 0
  /\ lastSleep = 0
  /\ lastAttempt = "none"
  /\ netFetch = NoCalls
  /\ extractCalls = NoCalls
  /\ pubCalls = NoCalls
  /\ outcome = NoOutcome
  /\ summarizationFailed = {}
  /\ prevFetchFailed = [k \in KeywordSets |-> {}]
  /\ interrupted = FALSE
  /\ published = [p \in Papers |-> "never"]

\* A fresh installation: the data directories are empty.
InitProgram ==
  /\ markers = {}
  /\ processed_at = [p \in Papers |-> None]
  /\ pdf = [d \in Dirs |-> {}]
  /\ dlLink = 0
  /\ textFiles = {}
  /\ summaryFiles = {}
  /\ logs = NoLogs
  /\ tsFile = EmptyMap
  /\ idsFile = {}
  /\ newIdsFile = [k \in KeywordSets |-> None]
  /\ InitMemory

Procs == {1, 2}

ConOff ==
  /\ cpc = [i \in Procs |-> "off"]
  /\ cresult = [i \in Procs |-> None]
  /\ cpubCalls = [i \in Procs |-> 0]
  /\ cownFailure = [i \in Procs |-> FALSE]
  /\ partial = {}

WebOff == rendered = None /\ ConOff

LocOff ==
  /\ lpc = "off"
  /\ pdf_url = <<>>
  /\ resolved_id = <<>>
  /\ arxiv_id_without_ext = <<>>
  /\ WebOff

TextOff ==
  /\ LocOff
  /\ tpc = "off"
  /\ summary_text = <<>>
  /\ arxiv_id_text = <<>>
  /\ post_text = None
  /\ tweet_text = None

Init ==
  /\ InitProgram
  /\ tweet_enabled \in [KeywordSets -> BOOLEAN]
  /\ cfgValid \in [KeywordSets -> BOOLEAN]
  /\ TextOff

Downloader ==
  \/ DlSearch \/ DlSelect \/ DlSelected
  \/ PpDownload \/ PpCheck \/ PpExtract \/ PpSummarize \/ PpPublish \/ PpMark
  \/ DlNextPaper \/ DlFinish

Next ==
  \/ StartPass \/ MainSkipSet \/ RunSearchSet \/ RunSearchSetRaises
  \/ RunSearchSetReturns \/ MainAfterSet \/ MainSaveIds \/ MainSaveTimestamps
  \/ MainExit
  \/ Downloader

Spec == Init /\ [][Next]_vars

\* Passes that may be interrupted.
NextCrash == Next \/ Interrupt

SpecCrash == Init /\ [][NextCrash]_vars

\* ------------------------------------------------------------ the post text
\* Strings are sequences of code points.
Greeting == <<67, 40, 12539, 969, 12539, 32, 41, 12388, 32, 12415, 12435,
              12394, 12540, 65281>>
Ellipsis == <<46, 46, 46>>
BlankLine == <<10, 10>>
UrlPrefix == <<104, 116, 116, 112, 115, 58, 47, 47, 97, 114, 120, 105, 118,
               46, 111, 114, 103, 47, 97, 98, 115, 47>>
ShortFormThreshold == 130
TruncateAt == 277
TweetLimit == 280

\* A stripped summary of n characters and an identifier of n characters.
SummaryOf(n) == [i \in 1..n |-> 12354 + (i % 80)]
IdOf(n) == [i \in 1..n |-> IF i = 5 THEN 46 ELSE 48 + (i % 10)]

\* Python's s[:n].
Prefix(s, n) == IF Len(s) <= n THEN s ELSE SubSeq(s, 1, n)

\* A variant of CandidatePostText that shortens only a text that is longer
\* than the cut.
CandidatePostText_long_only(summary) ==
  LET text == Greeting \o summary
  IN IF Len(text) > TruncateAt
       THEN Prefix(text, TruncateAt) \o Ellipsis
       ELSE text

\* A variant of CandidatePostText that cuts at the limit itself.
CandidatePostText_cut_at_limit(summary) ==
  LET text == Greeting \o summary
  IN IF Len(text) > ShortFormThreshold
       THEN Prefix(text, TweetLimit) \o Ellipsis
       ELSE text

\* generate_summary, lines 85-93: the greeting, then the cut with "...".
CandidatePostText(summary) ==
  LET text == Greeting \o summary
  IN IF Len(text) > ShortFormThreshold
       THEN Prefix(text, TruncateAt) \o Ellipsis
       ELSE text

arxiv_url(id) == UrlPrefix \o id

\* A variant of UrlFits that leaves the separator out of the count.
UrlFits_no_separator(text, url) == Len(text) + Len(url) <= TweetLimit

\* The test on the URL, twitter_poster.py line 62 (and arxiv_downloader.py
\* line 324).
UrlFits(text, url) == Len(text) + Len(url) + 2 <= TweetLimit

\* post_thread, lines 56-63.
WithUrl(text, id) ==
  IF id # <<>>
    THEN IF UrlFits(text, arxiv_url(id))
           THEN text \o BlankLine \o arxiv_url(id)
           ELSE text
    ELSE text

\* generate_summary returns the summary with its post_text.
TxGenerateSummary ==
  /\ tpc = "start"
  /\ post_text' = Some(CandidatePostText(summary_text))
  /\ tpc' = "summarized"
  /\ UNCHANGED <<programVars, summary_text, arxiv_id_text, tweet_text, locVars, webVars, conVars>>

\* process_paper, lines 313-327: a post_text is made only when the summary
\* has none.
TxProcessPaper ==
  /\ tpc = "summarized"
  /\ post_text' = IF post_text = None
                    THEN Some(WithUrl(summary_text, arxiv_id_text))
                    ELSE post_text
  /\ tpc' = "assembled"
  /\ UNCHANGED <<programVars, summary_text, arxiv_id_text, tweet_text, locVars, webVars, conVars>>

\* post_thread, lines 50-66: the text given to create_tweet.
TxPostThread ==
  /\ tpc = "assembled"
  /\ tweet_text' = Some(WithUrl(post_text[1], arxiv_id_text))
  /\ tpc' = "posted"
  /\ UNCHANGED <<programVars, summary_text, arxiv_id_text, post_text, locVars, webVars, conVars>>

InitText ==
  /\ InitProgram
  /\ tweet_enabled = [k \in KeywordSets |-> TRUE]
  /\ cfgValid = [k \in KeywordSets |-> TRUE]
  /\ LocOff
  /\ tpc = "start"
  /\ summary_text \in {SummaryOf(n) : n \in 0..MaxSummaryLen}
  /\ arxiv_id_text \in {IdOf(n) : n \in 1..MaxIdLen}
  /\ post_text = None
  /\ tweet_text = None

NextText == TxGenerateSummary \/ TxProcessPaper \/ TxPostThread

SpecText == InitText /\ [][NextText]_vars

\* ------------------------------------------------------------ identifiers
\* Strings are sequences of code points.
Slash == 47
DotPdf == <<46, 112, 100, 102>>                       \* ".pdf"
SchemeSep == <<58, 47, 47>>                             \* "://"
UrlBase == <<104, 116, 116, 112, 58, 47, 47, 97, 114, 120, 105, 118, 46,
             111, 114, 103>>                            \* "http://arxiv.org"

\* The pieces a pdf_url is made of after its host: "/", "7", "v", ".pdf".
Tokens == {<<Slash>>, <<55>>, <<118>>, DotPdf}

RECURSIVE Concat(_)
Concat(ts) == IF ts = <<>> THEN <<>> ELSE Head(ts) \o Concat(Tail(ts))

Locators ==
  {UrlBase \o Concat(ts) : ts \in UNION {[1..n -> Tokens] : n \in 0..MaxTokens}}

StartsWithAt(s, t, i) ==
  /\ i + Len(t) - 1 <= Len(s)
  /\ \A j \in 1..Len(t) : s[i + j - 1] = t[j]

EndsWith(s, t) == Len(t) <= Len(s) /\ StartsWithAt(s, t, Len(s) - Len(t) + 1)

Least(S) == CHOOSE x \in S : \A y \in S : x <= y
Greatest(S) == CHOOSE x \in S : \A y \in S : y <= x

\* urlparse(url).path for a url "scheme://netloc..." without query or
\* fragment: what follows the netloc, from its first "/" on; "" when there is
\* none.
UrlPath(url) ==
  LET seps == {i \in 1..Len(url) : StartsWithAt(url, SchemeSep, i)}
      from == IF seps = {} THEN 1 ELSE Least(seps) + Len(SchemeSep)
      slashes == {i \in from..Len(url) : url[i] = Slash}
  IN IF slashes = {} THEN <<>> ELSE SubSeq(url, Least(slashes), Len(url))

\* path.split('/')[-1]: what follows the last "/", the whole string when
\* there is no "/".
LastPart(path) ==
  LET slashes == {i \in 1..Len(path) : path[i] = Slash}
  IN IF slashes = {} THEN path
     ELSE SubSeq(path, Greatest(slashes) + 1, Len(path))

\* extract_arxiv_id, lines 117-133: the last part of the path, without a
\* trailing ".pdf".
extract_arxiv_id(url) ==
  LET arxiv_id == LastPart(UrlPath(url))
  IN IF EndsWith(arxiv_id, DotPdf) THEN SubSeq(arxiv_id, 1, Len(arxiv_id) - 4)
     ELSE arxiv_id

\* The call extract_arxiv_id(paper): the function has no raise statement and
\* its string operations accept every string, so it returns.
LocExtract ==
  /\ lpc = "start"
  /\ resolved_id' = extract_arxiv_id(pdf_url)
  /\ lpc' = "returned"
  /\ UNCHANGED <<programVars, tpc, summary_text, arxiv_id_text, post_text,
                 tweet_text, pdf_url, arxiv_id_without_ext, webVars, conVars>>

Dot == 46

\* os.path.splitext(name)[0] for a name without "/": the name up to its last
\* ".", or the whole name when it has no "." or when only "." precede the
\* last one.
splitext_root(name) ==
  LET dots == {i \in 1..Len(name) : name[i] = Dot}
  IN IF dots = {} THEN name
     ELSE IF \E i \in 1..(Greatest(dots) - 1) : name[i] # Dot
       THEN SubSeq(name, 1, Greatest(dots) - 1)
       ELSE name

\* download_pdf, lines 209-217: the last part of the path, with ".pdf" added
\* when it does not end with it, then without its extension.
download_pdf_id(url) ==
  LET arxiv_id == LastPart(UrlPath(url))
      name == IF EndsWith(arxiv_id, DotPdf) THEN arxiv_id ELSE arxiv_id \o DotPdf
  IN splitext_root(name)

\* process_paper, line 270: download_pdf on the same paper gives the
\* identifier that the skip check and the marker use.
LocDownload ==
  /\ lpc = "returned"
  /\ arxiv_id_without_ext' = download_pdf_id(pdf_url)
  /\ lpc' = "named"
  /\ UNCHANGED <<programVars, tpc, summary_text, arxiv_id_text, post_text,
                 tweet_text, pdf_url, resolved_id, webVars, conVars>>

InitLocator ==
  /\ InitProgram
  /\ tweet_enabled = [k \in KeywordSets |-> TRUE]
  /\ cfgValid = [k \in KeywordSets |-> TRUE]
  /\ tpc = "off"
  /\ summary_text = <<>>
  /\ arxiv_id_text = <<>>
  /\ post_text = None
  /\ tweet_text = None
  /\ lpc = "start"
  /\ pdf_url \in Locators
  /\ resolved_id = <<>>
  /\ arxiv_id_without_ext = <<>>
  /\ WebOff

NextLocator == LocExtract \/ LocDownload

SpecLocator == InitLocator /\ [][NextLocator]_vars

\* ------------------------------------------------------------ web_generator.py
LogKinds == {"none", "posted", "error", "skipped"}

\* The id of the tweet made for a paper and the text of a publish error.
TweetIdOf(p) == p
ErrorText == "403 Forbidden"

\* The publish-log record of each kind, as its writers make it: post_thread
\* on success (twitter_poster.py 74-87: the tweets, no "error"), post_thread
\* on failure (109-120: "error": str(e), the tweets made before the failure:
\* none), process_paper for a skipped publish (arxiv_downloader.py 338-348:
\* "tweets": [], no "error").  A field that is absent is None.
LogData(kind, p) ==
  CASE kind = "posted"  -> [error |-> None, tweets |-> <<TweetIdOf(p)>>]
    [] kind = "error"   -> [error |-> Some(ErrorText), tweets |-> <<>>]
    [] kind = "skipped" -> [error |-> None, tweets |-> <<>>]

\* A variant of process_log_data that takes a record without tweets for a
\* failure.
process_log_data_by_tweets(log_data) ==
  IF log_data.tweets # <<>>
    THEN [status |-> "Success", error |-> None,
          tweet_id |-> Some(log_data.tweets[1])]
    ELSE [status |-> "Failed", error |-> log_data.error, tweet_id |-> None]

\* process_log_data, lines 111-126: Success without an "error" field, with
\* the id of the first tweet if there is one; Failed, with the error text,
\* with one.
process_log_data(log_data) ==
  IF log_data.error = None
    THEN [status |-> "Success", error |-> None,
          tweet_id |-> IF log_data.tweets # <<>>
                         THEN Some(log_data.tweets[1]) ELSE None]
    ELSE [status |-> "Failed", error |-> log_data.error, tweet_id |-> None]

\* A variant of LogsAfterRendering that clears the failure records away.
logs_without_failures(log_dir) ==
  [logs EXCEPT ![log_dir] =
     [p \in Papers |-> IF logs[log_dir][p] = "error" THEN "none"
                       ELSE logs[log_dir][p]]]

\* generate_webpage: the log files are opened for reading only
\* (classify_logs_by_date, line 27); the files written are the pages, the
\* style sheet and the script under output_dir (lines 166, 250, 336, 392,
\* 689, 797).
LogsAfterRendering(log_dir) == logs

\* web_generator.py on a log directory: generate_webpage, lines 513-805, and
\* classify_logs_by_date, lines 13-42.  Without log files the result is
\* False; an exception (an output directory that cannot be written) is
\* caught and gives False as well.
GenerateWebpage ==
  /\ opc = "idle" /\ dpc = "none"
  /\ \E log_dir \in Dirs, written \in BOOLEAN :
       LET log_files == {p \in Papers : logs[log_dir][p] # "none"}
       IN /\ rendered' =
               Some([log_dir |-> log_dir,
                     success |-> log_files # {} /\ written,
                     date_logs |->
                       [p \in log_files |->
                          process_log_data(LogData(logs[log_dir][p], p))]])
          /\ logs' = LogsAfterRendering(log_dir)
  /\ UNCHANGED <<now, markers, processed_at, pdf, dlLink, textFiles,
                 summaryFiles, tsFile, idsFile, newIdsFile, cfgVars, orchVars,
                 rssVars, dlVars, ppVars, callVars, histVars>>
  /\ UNCHANGED <<tpc, summary_text, arxiv_id_text, post_text, tweet_text,
                 locVars, conVars>>

\* The data directories after some runs of the pipeline: any publish-log
\* record for any paper in any log directory, a marker for some of the
\* papers that have a record, the ledger-id set and a watermark as a pass
\* saved them.
InitRender ==
  /\ InitMemory
  /\ logs \in [Dirs -> [Papers -> LogKinds]]
  /\ markers \in SUBSET {p \in Papers : \E d \in Dirs : logs[d][p] # "none"}
  /\ processed_at = [p \in Papers |-> IF p \in markers THEN Some(1) ELSE None]
  /\ pdf = [d \in Dirs |-> {}]
  /\ dlLink = 0
  /\ textFiles = {p \in Papers : \E d \in Dirs : logs[d][p] # "none"}
  /\ summaryFiles = textFiles
  /\ tsFile = (1 :> [timestamp |-> Some(1), last_paper_id |-> None])
  /\ idsFile = markers
  /\ newIdsFile = [k \in KeywordSets |-> None]
  /\ tweet_enabled = [k \in KeywordSets |-> TRUE]
  /\ cfgValid = [k \in KeywordSets |-> TRUE]
  /\ tpc = "off"
  /\ summary_text = <<>>
  /\ arxiv_id_text = <<>>
  /\ post_text = None
  /\ tweet_text = None
  /\ lpc = "off"
  /\ pdf_url = <<>>
  /\ resolved_id = <<>>
  /\ arxiv_id_without_ext = <<>>
  /\ WebOff

NextRender == GenerateWebpage

SpecRender == InitRender /\ [][NextRender]_vars

\* ------------------------------------------------------------ direct invocations
\* arxiv_downloader.py started by hand, lines 394-500: the flags are free,
\* --processed-ids-file names a file with any ids (or none) and the download
\* directory is ./dl.
CliStart ==
  /\ opc = "idle"
  /\ dpc = "none"
  /\ passes < MaxPasses
  /\ \E d \in {0, 1} : Sleep(d)
  /\ \E k \in KeywordSets, redownload \in BOOLEAN, force \in BOOLEAN,
        skip \in BOOLEAN, test_mode \in BOOLEAN, ids \in SUBSET Papers :
       StartDownloader([set |-> k,
                        force_download |-> redownload,
                        force_process |-> force,
                        skip_twitter |-> skip,
                        max_results |-> CliDefaultMaxResults,
                        max_process |-> IF test_mode THEN 1
                                        ELSE UnlimitedMaxProcess,
                        since_timestamp |-> None,
                        last_paper_id |-> None,
                        processed_ids |-> ids,
                        output_processed_ids |-> FALSE,
                        log_dir |-> 0])
  /\ UNCHANGED <<diskVars, cfgVars, orchVars, rssVars, histVars, textVars>>

\* arxiv_downloader.py started by hand with --since-timestamp and
\* --last-paper-id (lines 445-454), given or not.
CliStartFiltered ==
  /\ opc = "idle"
  /\ dpc = "none"
  /\ passes < MaxPasses
  /\ \E d \in {0, 1} : Sleep(d)
  /\ \E k \in KeywordSets, skip \in BOOLEAN,
        since \in {None} \cup {Some(t) : t \in Times},
        last \in {None} \cup {Some(i) : i \in 0..NumPapers} :
       StartDownloader([set |-> k,
                        force_download |-> FALSE,
                        force_process |-> FALSE,
                        skip_twitter |-> skip,
                        max_results |-> CliDefaultMaxResults,
                        max_process |-> UnlimitedMaxProcess,
                        since_timestamp |-> since,
                        last_paper_id |-> last,
                        processed_ids |-> {},
                        output_processed_ids |-> FALSE,
                        log_dir |-> 0])
  /\ UNCHANGED <<diskVars, cfgVars, orchVars, rssVars, histVars, textVars>>

\* The search of such an invocation.
NextSearch == CliStartFiltered \/ DlSearch

\* The process has ended.
CliExit ==
  /\ opc = "idle"
  /\ dpc = "exited"
  /\ ProcessGone
  /\ passes' = passes + 1
  /\ summarizationFailed' = {}
  /\ UNCHANGED <<now, diskVars, cfgVars, opc, timestamps, processed_ids,
                 all_new_processed_ids, setIdx, ranOrder, waitedAfter, savedIds, savedTs,
                 rssVars, prevFetchFailed, interrupted, published, textVars>>

InitCli ==
  /\ InitProgram
  /\ tweet_enabled = [k \in KeywordSets |-> TRUE]
  /\ cfgValid = [k \in KeywordSets |-> TRUE]
  /\ TextOff

NextCli == CliStart \/ CliExit \/ Downloader

SpecCli == InitCli /\ [][NextCli]_vars

SpecSearch == InitCli /\ [][NextSearch]_vars

\* Direct invocations in which the record and marker writes may fail.
NextCliFaults == NextCli \/ PpRaises

SpecCliFaults == InitCli /\ [][NextCliFaults]_vars

\* A second invocation that runs at the same time on the same directories
\* takes a paper through its pipeline to the end: seen from the invocation
\* modelled above, the files of that paper are on disk (process_paper,
\* lines 282-353, in the other process), the marker being the last of them.
\* The files are put in one step, at the time of the marker write.
ConcurrentRunCompletes ==
  /\ dpc \in {"select", "process"}
  /\ \E p \in Papers, posted \in BOOLEAN :
       /\ p \notin markers
       /\ pdf' = [pdf EXCEPT ![dlLink] = @ \cup {p}]
       /\ textFiles' = textFiles \cup {p}
       /\ summaryFiles' = summaryFiles \cup {p}
       /\ logs' = [logs EXCEPT ![args.log_dir][p] =
                     IF posted THEN "posted" ELSE SkipLogRecord]
       /\ markers' = mark_as_processed(p)
       /\ processed_at' = [processed_at EXCEPT ![p] = Some(now)]
  /\ UNCHANGED <<now, dlLink, tsFile, idsFile, newIdsFile, cfgVars, orchVars,
                 rssVars, dlVars, ppVars, callVars, histVars>>
  /\ UNCHANGED textVars

\* Direct invocations with a second invocation running at the same time.
NextCliConcurrent == NextCli \/ ConcurrentRunCompletes

SpecCliConcurrent == InitCli /\ [][NextCliConcurrent]_vars

\* ------------------------------------------------------------ two invocations
\* Two invocations of arxiv_downloader.py run at the same time, without
\* --force-process and without --skip-twitter, on the same directories (./dl,
\* ./text, ./summary, ./processed, ./logs); the search of each returned the
\* one paper ConPaper.  Each step is one file operation or one call of a
\* collaborator.
ConPaper == 1

ConStep(i, stage) == cpc' = [cpc EXCEPT ![i] = stage]

ConReturn(i, value) ==
  /\ cpc' = [cpc EXCEPT ![i] = "returned"]
  /\ cresult' = [cresult EXCEPT ![i] = Some(value)]

ConOwnFailure(i) == cownFailure' = [cownFailure EXCEPT ![i] = TRUE]

ConRest == <<now, dlLink, tsFile, idsFile, newIdsFile, cfgVars, orchVars,
             rssVars, dlVars, ppVars, callVars, summarizationFailed,
             prevFetchFailed, interrupted, tpc, summary_text, arxiv_id_text,
             post_text, tweet_text, locVars, rendered>>

\* main, lines 548-558: the selection.  A processed paper is passed over; a
\* file that exists in ./dl is taken as it is (download_pdf, lines 222-225:
\* os.path.exists, whether or not its writer has finished); otherwise the
\* paper is fetched, and the file is opened for writing (line 237) when the
\* fetch succeeded.
ConSelect(i) ==
  /\ cpc[i] = "select"
  /\ IF is_processed(ConPaper, {})
       THEN /\ ConStep(i, "not_selected")
            /\ UNCHANGED <<pdf, partial, cownFailure>>
       ELSE IF ConPaper \in pdf[dlLink]
         THEN /\ ConStep(i, "download")
              /\ UNCHANGED <<pdf, partial, cownFailure>>
         ELSE \E fetchOk \in BOOLEAN :
                IF fetchOk
                  THEN /\ pdf' = [pdf EXCEPT ![dlLink] = @ \cup {ConPaper}]
                       /\ partial' = partial \cup {ConPaper}
                       /\ ConStep(i, "writing")
                       /\ UNCHANGED cownFailure
                  ELSE /\ ConStep(i, "not_selected")
                       /\ ConOwnFailure(i)
                       /\ UNCHANGED <<pdf, partial>>
  /\ UNCHANGED <<markers, processed_at, textFiles, summaryFiles, logs,
                 cresult, cpubCalls>>
  /\ UNCHANGED <<ConRest, published>>

\* download_pdf, lines 237-238: the content is written and the file closed.
ConWritten(i) ==
  /\ cpc[i] = "writing"
  /\ partial' = IF \E j \in Procs \ {i} : cpc[j] = "writing"
                  THEN partial
                  ELSE partial \ {ConPaper}
  /\ ConStep(i, "download")
  /\ UNCHANGED <<markers, processed_at, pdf, textFiles, summaryFiles, logs,
                 cresult, cpubCalls, cownFailure>>
  /\ UNCHANGED <<ConRest, published>>

\* process_paper, lines 267-275: download_pdf finds the file of the
\* selected paper in ./dl.
ConDownload(i) ==
  /\ cpc[i] = "download"
  /\ ConPaper \in pdf[dlLink]
  /\ ConStep(i, "check")
  /\ UNCHANGED <<markers, processed_at, pdf, textFiles, summaryFiles, logs,
                 cresult, cpubCalls, cownFailure, partial>>
  /\ UNCHANGED <<ConRest, published>>

\* process_paper, lines 277-280: the skip check.
ConCheck(i) ==
  /\ cpc[i] = "check"
  /\ IF is_processed(ConPaper, {})
       THEN ConReturn(i, TRUE)
       ELSE ConStep(i, "extract") /\ UNCHANGED cresult
  /\ UNCHANGED <<markers, processed_at, pdf, textFiles, summaryFiles, logs,
                 cpubCalls, cownFailure, partial>>
  /\ UNCHANGED <<ConRest, published>>

\* extract_text_from_pdf, lines 32-35 of pdf_processor.py: PdfReader reads
\* the file as it is on disk; a file whose writer has not finished is empty
\* or cut short, and the reader raises on it (caught at line 60).
ReadablePdf(p) == p \in pdf[dlLink] /\ p \notin partial

\* process_paper, lines 282-290: the text extraction.
ConExtract(i) ==
  /\ cpc[i] = "extract"
  /\ IF ~ReadablePdf(ConPaper)
       THEN /\ ConReturn(i, FALSE)
            /\ UNCHANGED <<textFiles, cownFailure>>
       ELSE \E ok \in BOOLEAN :
              IF ok
                THEN /\ textFiles' = textFiles \cup {ConPaper}
                     /\ ConStep(i, "summarize")
                     /\ UNCHANGED <<cresult, cownFailure>>
                ELSE /\ ConReturn(i, FALSE)
                     /\ ConOwnFailure(i)
                     /\ UNCHANGED textFiles
  /\ UNCHANGED <<markers, processed_at, pdf, summaryFiles, logs, cpubCalls,
                 partial>>
  /\ UNCHANGED <<ConRest, published>>

\* process_paper, lines 296-309: generate_summary gives the summary, or
\* None when its attempts are used up.
ConSummarize(i) ==
  /\ cpc[i] = "summarize"
  /\ \E ok \in BOOLEAN :
       IF ok
         THEN /\ summaryFiles' = summaryFiles \cup {ConPaper}
              /\ ConStep(i, "publish")
              /\ UNCHANGED <<cresult, cownFailure>>
         ELSE /\ ConReturn(i, FALSE)
              /\ ConOwnFailure(i)
              /\ UNCHANGED summaryFiles
  /\ UNCHANGED <<markers, processed_at, pdf, textFiles, logs, cpubCalls,
                 partial>>
  /\ UNCHANGED <<ConRest, published>>

\* process_paper, lines 329-334: post_thread, which writes the record of its
\* outcome.
ConPublish(i) ==
  /\ cpc[i] = "publish"
  /\ cpubCalls' = [cpubCalls EXCEPT ![i] = @ + 1]
  /\ \E ok \in BOOLEAN :
       IF ok
         THEN /\ logs' = [logs EXCEPT ![0][ConPaper] = "posted"]
              /\ published' = [published EXCEPT ![ConPaper] = OnceMore(@)]
              /\ ConStep(i, "mark")
              /\ UNCHANGED <<cresult, cownFailure>>
         ELSE /\ logs' = [logs EXCEPT ![0][ConPaper] = "error"]
              /\ ConReturn(i, FALSE)
              /\ ConOwnFailure(i)
              /\ UNCHANGED published
  /\ UNCHANGED <<markers, processed_at, pdf, textFiles, summaryFiles, partial>>
  /\ UNCHANGED ConRest

\* process_paper, lines 352-355: mark_as_processed, then return True.
ConMark(i) ==
  /\ cpc[i] = "mark"
  /\ markers' = mark_as_processed(ConPaper)
  /\ processed_at' = [processed_at EXCEPT ![ConPaper] = Some(now)]
  /\ ConReturn(i, TRUE)
  /\ UNCHANGED <<pdf, textFiles, summaryFiles, logs, cpubCalls, cownFailure,
                 partial>>
  /\ UNCHANGED <<ConRest, published>>

\* Time passes (the sleeps of lines 231 and 594).
ConTick ==
  /\ now < MaxTime
  /\ now' = now + 1
  /\ UNCHANGED <<diskVars, cfgVars, orchVars, rssVars, dlVars, ppVars,
                 callVars, histVars, textVars>>

InitTwo ==
  /\ InitProgram
  /\ tweet_enabled = [k \in KeywordSets |-> TRUE]
  /\ cfgValid = [k \in KeywordSets |-> TRUE]
  /\ tpc = "off"
  /\ summary_text = <<>>
  /\ arxiv_id_text = <<>>
  /\ post_text = None
  /\ tweet_text = None
  /\ lpc = "off"
  /\ pdf_url = <<>>
  /\ resolved_id = <<>>
  /\ arxiv_id_without_ext = <<>>
  /\ rendered = None
  /\ cpc = [i \in Procs |-> "select"]
  /\ cresult = [i \in Procs |-> None]
  /\ cpubCalls = [i \in Procs |-> 0]
  /\ cownFailure = [i \in Procs |-> FALSE]
  /\ partial = {}

NextTwo ==
  \/ ConTick
  \/ \E i \in Procs :
       \/ ConSelect(i) \/ ConWritten(i) \/ ConDownload(i) \/ ConCheck(i)
       \/ ConExtract(i) \/ ConSummarize(i) \/ ConPublish(i) \/ ConMark(i)

SpecTwo == InitTwo /\ [][NextTwo]_vars

\* ------------------------------------------------------------ claims
InStage(p) ==
  /\ dpc = "process"
  /\ ppc \in {"download", "check", "extract", "summarize", "publish", "mark"}
  /\ CurrentPaper = p

\* C1: once an identifier has its processed marker, no step of a run
\* without force-process selects it, fetches it over the network, extracts
\* it, calls the summarizer or the publisher for it, or takes it into a
\* pipeline stage.
C1_Idempotence ==
  [][\A p \in Papers :
       (p \in markers /\ ~args'.force_process) =>
         /\ p \in Range(papers_to_process') => p \in Range(papers_to_process)
         /\ netFetch'[p] <= netFetch[p]
         /\ extractCalls'[p] <= extractCalls[p]
         /\ pubCalls'[p] <= pubCalls[p]
         /\ ~InStage(p)']_vars

\* A run without force-process has passed over a candidate that was marked
\* before the run selected anything.
C1_Witness ==
  /\ dpc \in {"select", "process", "finish", "exited"}
  /\ ~args.force_process
  /\ \E i \in 1..Len(papers) :
       /\ i < selIdx
       /\ papers[i] \in markers
       /\ papers[i] \notin Range(papers_to_process)

\* C2: when a pass has saved its state, a paper whose summarization ran out
\* of retries in that pass and that has no processed marker is not in the
\* persisted ledger-id set.
C2_FailedSummaryNotInLedger ==
  opc = "done" =>
    \A p \in summarizationFailed : p \notin markers => p \notin idsFile

SearchCompleted ==
  dpc \in {"select", "process", "finish"} \/ (dpc = "exited" /\ exitCode = Some(0))

\* C3: a paper whose fetch failed in a run of a keyword set is not marked
\* by that run, and the next run of that keyword set gets it back from its
\* watermark-filtered search (unless it was processed in between).
C3_FetchFailedConsideredAgain ==
  /\ \A p \in Papers : outcome[p] = "fetch_failed" => p \notin markers
  /\ (opc = "subprocess" /\ SearchCompleted) =>
       \A p \in prevFetchFailed[args.set] :
         ~is_processed(p, args.processed_ids) => p \in Range(papers)

RECURSIVE SumOver(_, _)
SumOver(f, S) ==
  IF S = {} THEN 0
  ELSE LET x == CHOOSE y \in S : TRUE IN f[x] + SumOver(f, S \ {x})

LastSelected == papers_to_process[Len(papers_to_process)]

\* C4: in a batch, a paper that has made a publish call is the last selected
\* paper, the batch has made at most one publish call, and no paper makes one
\* when the skip-publish flag is set or the keyword set has publishing off.
C4_OnlyLastPublishes ==
  /\ SumOver(pubCalls, Papers) <= 1
  /\ \A p \in Papers :
       pubCalls[p] >= 1 =>
         /\ papers_to_process # <<>>
         /\ p = LastSelected
         /\ ~args.skip_twitter
         /\ tweet_enabled[args.set]

\* A finished batch of two or more papers: the last one made the publish
\* call, the first one went through with publishing skipped.
C4_Witness ==
  /\ dpc = "finish"
  /\ Len(papers_to_process) >= 2
  /\ pubCalls[LastSelected] = 1
  /\ logs[args.log_dir][papers_to_process[1]] = "skipped"
  /\ papers_to_process[1] \in markers

\* C5 as stated: a finished batch with publishing enabled has made exactly
\* one publish call, by the run of its last paper.
C5_ExactlyOnePublish ==
  (dpc = "finish" /\ ~args.skip_twitter) =>
    /\ SumOver(pubCalls, Papers) = 1
    /\ pubCalls[LastSelected] = 1

ReachedPublish(p) == outcome[p] \in {"publish_failed", "done"}

\* C5 amended: a finished batch with publishing enabled has made no publish
\* call for any paper but the last, and for the last paper exactly one if its
\* run got as far as the publish stage (download, extraction and
\* summarization succeeded) and none otherwise.
C5_OnePublishIfLastReachesPublish ==
  (dpc = "finish" /\ ~args.skip_twitter) =>
    /\ \A p \in Papers \ {LastSelected} : pubCalls[p] = 0
    /\ pubCalls[LastSelected] = IF ReachedPublish(LastSelected) THEN 1 ELSE 0

\* A finished batch of two papers with publishing enabled whose first paper
\* failed before the publish stage and whose last paper published.
C5_Witness ==
  /\ dpc = "finish"
  /\ ~args.skip_twitter
  /\ Len(papers_to_process) >= 2
  /\ outcome[papers_to_process[1]] = "extract_failed"
  /\ outcome[LastSelected] = "done"
  /\ pubCalls[LastSelected] = 1

\* The text ends with a blank line and the URL.
EndsWithUrl(text, url) ==
  LET tail == <<10, 10>> \o url
  IN /\ Len(text) >= Len(tail)
     /\ SubSeq(text, Len(text) - Len(tail) + 1, Len(text)) = tail

PostedUrl == arxiv_url(arxiv_id_text)
RawText == Greeting \o summary_text
\* greeting+summary, with "..." after at most 277 characters when it is
\* longer than 130.
ShortenedText ==
  IF Len(RawText) > 130
    THEN SubSeq(RawText, 1, IF Len(RawText) > 277 THEN 277 ELSE Len(RawText))
           \o <<46, 46, 46>>
    ELSE RawText

\* C6 as stated: the text passed to the publish call contains the URL if and
\* only if len(greeting+summary) + 2 + U <= 280, and without the URL it is
\* greeting+summary, shortened with "..." when longer than the threshold.
C6_UrlIffRawTextFits ==
  tpc = "posted" =>
    /\ EndsWithUrl(tweet_text[1], PostedUrl)
         <=> Len(RawText) + 2 + Len(PostedUrl) <= 280
    /\ ~EndsWithUrl(tweet_text[1], PostedUrl) => tweet_text[1] = ShortenedText

\* C6 amended: the text passed to the publish call contains the URL if and
\* only if len(T) + 2 + U <= 280, where T is greeting+summary when that has
\* at most 130 characters and its first 277 characters followed by "..."
\* otherwise; with the URL the text is T, a blank line and the URL, without
\* it the text is T.
C6_UrlIffShortenedTextFits ==
  tpc = "posted" =>
    /\ EndsWithUrl(tweet_text[1], PostedUrl)
         <=> Len(ShortenedText) + 2 + Len(PostedUrl) <= 280
    /\ EndsWithUrl(tweet_text[1], PostedUrl) =>
         tweet_text[1] = ShortenedText \o <<10, 10>> \o PostedUrl
    /\ ~EndsWithUrl(tweet_text[1], PostedUrl) => tweet_text[1] = ShortenedText

\* A post whose greeting+summary would fit with the URL, and which has the
\* "..." and no URL.
C6_Witness ==
  /\ tpc = "posted"
  /\ Len(RawText) > 130
  /\ Len(RawText) + 2 + Len(PostedUrl) <= 280
  /\ ~EndsWithUrl(tweet_text[1], PostedUrl)

\* C7: the text handed to the publish call has at most 280 characters; it
\* ends with the separator and the URL exactly when the post text, the
\* separator and the URL together have at most 280 characters.
C7_WithinLimit ==
  tpc = "posted" =>
    /\ Len(tweet_text[1]) <= 280
    /\ EndsWithUrl(tweet_text[1], PostedUrl)
         <=> Len(post_text[1]) + 2 + Len(PostedUrl) <= 280
    /\ ~EndsWithUrl(tweet_text[1], PostedUrl) => tweet_text[1] = post_text[1]

\* A post of exactly 280 characters that ends with its URL.
C7_Witness ==
  /\ tpc = "posted"
  /\ Len(tweet_text[1]) = 280
  /\ EndsWithUrl(tweet_text[1], PostedUrl)

C9_WatermarkOnlyOnSuccess ==
  [][(opc # "afterset" /\ opc' = "afterset" /\ ~rssResult'.success) =>
       /\ setIdx \in DOMAIN timestamps' <=> setIdx \in DOMAIN timestamps
       /\ setIdx \in DOMAIN timestamps =>
            timestamps'[setIdx] = timestamps[setIdx]]_vars

RECURSIVE ValidSetsUpTo(_)
ValidSetsUpTo(n) ==
  IF n = 0 THEN <<>>
  ELSE IF cfgValid[n] THEN Append(ValidSetsUpTo(n - 1), n)
       ELSE ValidSetsUpTo(n - 1)

\* C10: whatever the runs of the keyword sets return, the sets run so far in
\* a pass are the validly configured sets up to the current one, each once
\* and in configuration order; when the pass is done every validly
\* configured set has been run and both saves have been made.
C10_FailureIsolation ==
  /\ opc = "loop" => ranOrder = ValidSetsUpTo(setIdx - 1)
  /\ opc \in {"subprocess", "afterset"} => ranOrder = ValidSetsUpTo(setIdx)
  /\ opc \in {"savets", "done"} => ranOrder = ValidSetsUpTo(NumSets)
  /\ opc = "savets" => savedIds
  /\ opc = "done" => savedIds /\ savedTs

\* A first pass that is done: the run of set 1 failed (it has no watermark),
\* set 2 was run after it and succeeded in its subprocess, and the state was
\* saved.
C10_Witness ==
  /\ opc = "done"
  /\ passes = 0
  /\ ranOrder = <<1, 2>>
  /\ 1 \notin DOMAIN timestamps
  /\ 2 \in DOMAIN timestamps
  /\ savedIds /\ savedTs

C12_SavesAtomic ==
  (opc = "done" /\ passes = 0) =>
    \/ idsFile = processed_ids /\ tsFile = timestamps
    \/ idsFile = {} /\ tsFile = EmptyMap

\* C13: a step that makes a publish call either writes the record of the
\* post and goes on to marking, or (the call failed) writes a record with
\* the error, makes process_paper return False and writes no marker; a paper
\* whose record carries an error is never at the marking stage.
C13_PublishFailureRecorded ==
  /\ [][\A p \in Papers :
          pubCalls'[p] > pubCalls[p] =>
            \/ /\ logs'[args.log_dir][p] = "posted"
               /\ ppc' = "mark"
            \/ /\ logs'[args.log_dir][p] = "error"
               /\ ppc' = "returned"
               /\ results' = Append(results, FALSE)
               /\ markers' = markers]_vars
  /\ [](dpc = "process" /\ ppc = "mark" =>
          logs[args.log_dir][CurrentPaper] # "error")

\* The publish call of a paper has failed: the record has the error,
\* process_paper has returned False and the paper has no marker.
C13_Witness ==
  /\ dpc = "process" /\ ppc = "returned"
  /\ pubCalls[CurrentPaper] = 1
  /\ logs[args.log_dir][CurrentPaper] = "error"
  /\ results[Len(results)] = FALSE
  /\ CurrentPaper \notin markers

\* C14: a step of the publish stage with publishing skipped (the flag is
\* set, or the paper is not the last of the batch) writes a record without
\* posts and without error, makes no publish call and goes on to marking;
\* the marking step writes the marker and makes process_paper return True.
C14_SkippedPublishRecorded ==
  [][/\ (/\ dpc = "process" /\ ppc = "publish"
         /\ (args.skip_twitter \/ procIdx # Len(papers_to_process))) =>
          /\ logs'[args.log_dir][CurrentPaper] = "skipped"
          /\ pubCalls' = pubCalls
          /\ ppc' = "mark"
     /\ (dpc = "process" /\ ppc = "mark") =>
          /\ markers' = markers \cup {CurrentPaper}
          /\ results' = Append(results, TRUE)
          /\ ppc' = "returned"]_vars

\* A paper went through with publishing skipped: it has the record without
\* posts, no publish call, a marker, and process_paper returned True.
C14_Witness ==
  /\ dpc = "process" /\ ppc = "returned"
  /\ outcome[CurrentPaper] = "done"
  /\ logs[args.log_dir][CurrentPaper] = "skipped"
  /\ pubCalls[CurrentPaper] = 0
  /\ CurrentPaper \in markers
  /\ results[Len(results)] = TRUE

\* C15: the summarization call is made with at most two failures behind it
\* (at most 3 attempts), the waits after the first and the second failure
\* are 2 s and 4 s whatever the kind of failure, a success leaves the stage
\* without a wait, and the third failure makes process_paper return False
\* without a wait.
C15_RetryWithBackoff ==
  /\ [](dpc = "process" /\ ppc = "summarize" =>
          /\ retry_count \in 0..2
          /\ retry_count = 0 => lastSleep = 0 /\ lastAttempt = "none"
          /\ retry_count = 1 => lastSleep = 2
          /\ retry_count = 2 => lastSleep = 4
          /\ retry_count > 0 => lastAttempt \in {"rate_limit", "error"})
  /\ [][(dpc = "process" /\ ppc = "summarize") =>
          \/ /\ ppc' = "publish"
             /\ CurrentPaper \in summaryFiles'
             /\ lastSleep' = 0 /\ now' = now
          \/ /\ ppc' = "summarize"
             /\ retry_count < 2
             /\ retry_count' = retry_count + 1
          \/ /\ ppc' = "returned"
             /\ retry_count = 2 \/ outcome'[CurrentPaper] = "summary_unsaved"
             /\ results' = Append(results, FALSE)
             /\ lastSleep' = 0 /\ now' = now]_vars

\* The second attempt has failed with a rate-limit error: the caller has
\* waited 4 s and the third attempt is due.
C15_Witness ==
  /\ dpc = "process" /\ ppc = "summarize"
  /\ retry_count = 2
  /\ lastAttempt = "rate_limit"
  /\ lastSleep = 4

FailedOutright(p) ==
  outcome[p] \in {"fetch_failed", "extract_failed", "publish_failed"}

\* C16: in one invocation a paper has at most one network fetch, one
\* extraction call and one publish call; a step in which one of them fails
\* writes no marker and either passes the paper over at selection or makes
\* process_paper return False; and the invocation does nothing more for a
\* paper that failed so.
C16_NoRetryOfOtherStages ==
  /\ [](\A p \in Papers :
          netFetch[p] <= 1 /\ extractCalls[p] <= 1 /\ pubCalls[p] <= 1)
  /\ [][\A p \in Papers :
          /\ (~FailedOutright(p) /\ FailedOutright(p)') =>
               /\ markers' = markers
               /\ netFetch'[p] + extractCalls'[p] + pubCalls'[p]
                    = netFetch[p] + extractCalls[p] + pubCalls[p] + 1
               /\ \/ dpc = "select" /\ p \notin Range(papers_to_process')
                  \/ /\ dpc = "process" /\ ppc' = "returned"
                     /\ results' = Append(results, FALSE)
          /\ (FailedOutright(p) /\ dpc' \in {"select", "process", "finish", "exited"}) =>
               /\ outcome'[p] = outcome[p]
               /\ netFetch'[p] = netFetch[p]
               /\ extractCalls'[p] = extractCalls[p]
               /\ pubCalls'[p] = pubCalls[p]
               /\ (p \in markers') = (p \in markers)]_vars

\* A batch has finished in which the extraction of one paper failed after
\* its one fetch: it was extracted once and has no marker.
C16_Witness ==
  /\ dpc = "finish"
  /\ \E p \in Papers :
       /\ outcome[p] = "extract_failed"
       /\ netFetch[p] = 1
       /\ extractCalls[p] = 1
       /\ p \notin markers

\* C17: whatever fails in a paper's run, process_paper returns a value to
\* the batch loop: an invocation that selected papers ends normally, with a
\* result of process_paper for every selected paper.
C17_NoExceptionLeavesPaperRun ==
  (dpc = "exited" /\ papers_to_process # <<>>) =>
    /\ exitCode = Some(0)
    /\ Len(results) = Len(papers_to_process)

\* C18: with --force-download, a selection step that calls download_pdf
\* (the paper is to be processed and no ./pdf/* directory holds its file)
\* for a paper whose file is already in the download directory fetches the
\* file over the network again.
C18_ForceDownloadFetchesAgain ==
  [][(/\ dpc = "select"
      /\ args.force_download
      /\ selIdx <= Len(papers)
      /\ processed_count < args.max_process
      /\ ~is_processed(papers[selIdx], args.processed_ids) \/ args.force_process
      /\ ~HasSiblingCopy(papers[selIdx])
      /\ papers[selIdx] \in pdf[dlLink]) =>
        netFetch'[papers[selIdx]] = netFetch[papers[selIdx]] + 1]_vars

InLedger(p) == p \in markers \/ p \in args.processed_ids

\* C19: with --force-process, a selection step at a candidate that is in the
\* ledger (marker or preloaded ids) selects it unless its file cannot be
\* had, the skip check sends it on to the extraction, and the stages after
\* the extraction follow as for any paper, up to the marking.
C19_ForceProcessRuns ==
  [][/\ (/\ dpc = "select"
         /\ args.force_process
         /\ selIdx <= Len(papers)
         /\ processed_count < args.max_process
         /\ InLedger(papers[selIdx])) =>
          \/ papers_to_process' = Append(papers_to_process, papers[selIdx])
          \/ /\ outcome'[papers[selIdx]] = "fetch_failed"
             /\ papers[selIdx] \notin pdf'[dlLink]
     /\ (/\ dpc = "process" /\ args.force_process
         /\ InLedger(CurrentPaper)) =>
          /\ ppc = "check" => ppc' = "extract"
          /\ ppc = "extract" =>
               /\ extractCalls'[CurrentPaper] = extractCalls[CurrentPaper] + 1
               /\ ppc' \in {"summarize", "returned"}
          /\ ppc = "summarize" => ppc' \in {"summarize", "publish", "returned"}
          /\ ppc = "publish" => ppc' \in {"mark", "returned"}
          /\ ppc = "mark" => outcome'[CurrentPaper] = "done"]_vars

\* With --force-process a paper that has a marker and is in the preloaded
\* ids has been extracted, summarized and taken through the publish stage
\* again, and is about to be marked again.
C19_Witness ==
  /\ dpc = "process" /\ ppc = "mark"
  /\ args.force_process
  /\ CurrentPaper \in markers
  /\ CurrentPaper \in args.processed_ids
  /\ extractCalls[CurrentPaper] = 1
  /\ CurrentPaper \in summaryFiles
  /\ logs[args.log_dir][CurrentPaper] \in {"posted", "skipped"}

\* C20: the record that a publish attempt wrote for a paper (the posts, or
\* the error) is never replaced or removed by a later step.
C20_LogRecordsKept ==
  [][\A d \in Dirs, p \in Papers :
       logs[d][p] \in {"posted", "error"} => logs'[d][p] = logs[d][p]]_vars

C22_MergedIdsAreCompleted ==
  [][(opc = "loop" /\ LoopEnded /\ opc' = "savets") =>
       \A p \in processed_ids' \ processed_ids : p \in markers]_vars

\* The papers whose pipeline ran to the end in the current batch.
Completed == {p \in Papers : outcome[p] = "done"}

\* C23: the final report of a batch counts the papers whose pipeline
\* completed in the batch, and says that a publish occurred exactly when a
\* publish call was made and succeeded in the batch.
C23_ReportIsTruthful ==
  dpc = "finish" =>
    /\ ReportedProcessed = Cardinality(Completed)
    /\ twitter_posted <=> \E p \in Completed : pubCalls[p] > 0

\* C24: the single-keyword-set program ends with code 0 whenever it ends
\* after its setup and search (nothing found, nothing to process, or the
\* batch went through, whatever happened to its papers); a step that ends it
\* with another code is taken in the setup and search stage.
C24_NonZeroOnlyOnSetupFailure ==
  [][(dpc # "exited" /\ dpc' = "exited") =>
       /\ exitCode' # None
       /\ exitCode' # Some(0) => dpc = "search"]_vars

\* C25: is_processed answers True exactly when the id is in the preloaded
\* set or a marker file exists for it, for every id and every preloaded set
\* (the empty set standing for no preloaded set as well).
C25_IsProcessedExact ==
  \A p \in Papers, ids \in SUBSET Papers :
    is_processed(p, ids) <=> (p \in ids \/ p \in markers)

\* The selection loop has passed over a paper that has a marker and is not
\* in the (non-empty) preloaded set, and over one that has no marker and is
\* in the preloaded set.
C25_Witness ==
  /\ dpc = "select"
  /\ ~args.force_process
  /\ args.processed_ids # {}
  /\ \E i, j \in 1..Len(papers) :
       /\ i < selIdx /\ j < selIdx
       /\ papers[i] \in markers /\ papers[i] \notin args.processed_ids
       /\ papers[j] \notin markers /\ papers[j] \in args.processed_ids
       /\ papers[i] \notin Range(papers_to_process)
       /\ papers[j] \notin Range(papers_to_process)

\* C26: the marking step of a pipeline run, whether or not the id already
\* has a marker, ends normally, leaves the id with its one marker file,
\* leaves the markers of the other ids as they were, and makes is_processed
\* answer True for the id.
C26_MarkIdempotent ==
  [][(dpc = "process" /\ ppc = "mark") =>
       LET p == CurrentPaper IN
         /\ ppc' = "returned" /\ outcome'[p] = "done"
         /\ markers' = markers \cup {p}
         /\ \A q \in Papers \ {p} : processed_at'[q] = processed_at[q]
         /\ processed_at'[p] # None
         /\ is_processed(p, {})'
         /\ p \in markers => Cardinality(markers') = Cardinality(markers)]_vars

\* The marking step is about to run for an id that was marked at time 1, at
\* time 2, while the other id has a marker too.
C26_Witness ==
  /\ dpc = "process" /\ ppc = "mark"
  /\ now = 2
  /\ processed_at[CurrentPaper] = Some(1)
  /\ markers = Papers

\* The path of the locator has no segment: it is empty or made of "/" only.
NoPathSegments(url) ==
  \A i \in 1..Len(UrlPath(url)) : UrlPath(url)[i] = Slash

\* C27: the identity resolver, called on a locator whose path has no
\* segment, does not return an identifier (it fails with MalformedLocator).
C27_MalformedLocatorRejected ==
  NoPathSegments(pdf_url) => lpc # "returned"

\* C28: the renderer classifies each publish-log record of the directory as
\* Failed, with the error text of the record, exactly when the record has an
\* error field, and as Success otherwise; the record of a skipped publish is
\* Success and has no tweet id.
C28_ClassifiedByErrorField ==
  rendered # None =>
    LET r == rendered[1]
        kindOf == logs[r.log_dir]
    IN /\ DOMAIN r.date_logs = {p \in Papers : kindOf[p] # "none"}
       /\ \A p \in DOMAIN r.date_logs :
            LET log_data == LogData(kindOf[p], p)
                paper_info == r.date_logs[p]
            IN /\ paper_info.status \in {"Failed", "Success"}
               /\ paper_info.status = "Failed" <=> log_data.error # None
               /\ paper_info.status = "Failed" =>
                    paper_info.error = log_data.error
               /\ kindOf[p] = "skipped" =>
                    /\ paper_info.status = "Success"
                    /\ paper_info.tweet_id = None
               /\ kindOf[p] = "posted" =>
                    /\ paper_info.status = "Success"
                    /\ paper_info.tweet_id = Some(TweetIdOf(p))

\* The renderer has run on a directory that holds the record of a failed
\* publish and the record of a skipped publish.
C28_Witness ==
  /\ rendered # None
  /\ \E p, q \in DOMAIN rendered[1].date_logs :
       /\ logs[rendered[1].log_dir][p] = "error"
       /\ logs[rendered[1].log_dir][q] = "skipped"

\* C29: a run of the renderer (every step of the specification of the
\* renderer is one) leaves every publish-log record, every marker, the
\* ledger-id set and the watermarks as they were.
C29_RendererFrame ==
  [][/\ logs' = logs
     /\ markers' = markers /\ processed_at' = processed_at
     /\ idsFile' = idsFile /\ newIdsFile' = newIdsFile
     /\ tsFile' = tsFile]_vars

\* The renderer has run with success on a directory that holds a failure
\* record, while markers, ledger ids and a watermark are on disk.
C29_Witness ==
  /\ rendered # None
  /\ rendered[1].success
  /\ \E p \in Papers : logs[rendered[1].log_dir][p] = "error"
  /\ markers # {} /\ idsFile # {} /\ DOMAIN tsFile # {}

\* C30: when process_paper comes to its skip check (the fetch step is behind
\* it, the extraction has not begun) for a paper that has a marker, in a run
\* without --force-process, its next step is the return of True; that step
\* extracts no text, calls neither the summarizer nor the publisher, and
\* writes no text, summary, publish-log record or marker.
C30_SkipCheckFrame ==
  [][(/\ dpc = "process" /\ ppc = "check" /\ ppc' # ppc
      /\ CurrentPaper \in markers /\ ~args.force_process) =>
       /\ ppc' = "returned"
       /\ results' = Append(results, TRUE)
       /\ extractCalls' = extractCalls /\ pubCalls' = pubCalls
       /\ retry_count' = retry_count /\ lastAttempt' = lastAttempt
       /\ textFiles' = textFiles /\ summaryFiles' = summaryFiles
       /\ logs' = logs
       /\ markers' = markers /\ processed_at' = processed_at]_vars

\* process_paper has returned True from its skip check: the paper has a
\* marker, and this run made no extraction and no publish call for it.
C30_Witness ==
  /\ dpc = "process" /\ ppc = "returned"
  /\ outcome[CurrentPaper] = "skipped"
  /\ results[Len(results)] = TRUE
  /\ CurrentPaper \in markers
  /\ ~args.force_process
  /\ extractCalls[CurrentPaper] = 0 /\ pubCalls[CurrentPaper] = 0

\* s is t with some of its elements left out, the order kept (both without
\* repeated elements).
IsSubSeqOf(s, t) ==
  /\ Range(s) \subseteq Range(t)
  /\ \A i, j \in 1..Len(s) :
       i < j => \E a, b \in 1..Len(t) : a < b /\ t[a] = s[i] /\ t[b] = s[j]

\* C31, the states of the selection: the papers selected so far are among
\* the candidates walked so far, in their order, each with its file in the
\* download directory; there are as many as the count says and no more than
\* the cap (1 in test mode); a candidate whose fetch failed is not among them.
C31_SelectionState ==
  dpc \in {"select", "process", "finish"} =>
    /\ IsSubSeqOf(papers_to_process, Take(papers, selIdx - 1))
    /\ processed_count = Len(papers_to_process)
    /\ Len(papers_to_process) <= args.max_process
    /\ dpc = "select" =>
         \A i \in 1..Len(papers_to_process) :
           /\ papers_to_process[i] \in pdf[dlLink]
           /\ outcome[papers_to_process[i]] # "fetch_failed"

\* C31: a step of the selection loop takes the next candidate; it selects it
\* only if it is not processed (or force is set) and its file is there after
\* the copy or the fetch; a candidate whose fetch fails is not selected and
\* leaves the count as it was; no candidate is taken once the cap is reached.
C31_BatchSelection ==
  [][(dpc = "select" /\ selIdx' # selIdx) =>
       LET p == papers[selIdx] IN
         /\ selIdx' = selIdx + 1
         /\ processed_count < args.max_process
         /\ \/ /\ papers_to_process' = Append(papers_to_process, p)
               /\ processed_count' = processed_count + 1
               /\ ~is_processed(p, args.processed_ids) \/ args.force_process
               /\ p \in pdf'[dlLink]
            \/ /\ papers_to_process' = papers_to_process
               /\ processed_count' = processed_count
               /\ \/ is_processed(p, args.processed_ids) /\ ~args.force_process
                  \/ outcome'[p] = "fetch_failed" /\ p \notin pdf'[dlLink]
         /\ C31_SelectionState']_vars

\* A test-mode run whose first candidate could not be fetched: the second
\* one is the paper selected, and the selection is over.
C31_Witness ==
  /\ dpc = "process"
  /\ args.max_process = 1
  /\ Len(papers) = 2
  /\ outcome[papers[1]] = "fetch_failed"
  /\ papers_to_process = <<papers[2]>>

HasFile(p) == \E d \in Dirs : p \in pdf[d]
HasRecord(p) == \E d \in Dirs : logs[d][p] # "none"
HasGoodRecord(p) == \E d \in Dirs : logs[d][p] \in {"posted", "skipped"}

\* The artifacts of the stages, for every paper: a marker only with a
\* publish-log record without error, a record only with a summary, a summary
\* only with a text, a text only with a fetched file.
PrefixClosed ==
  \A p \in Papers :
    /\ p \in markers => HasGoodRecord(p)
    /\ HasRecord(p) => p \in summaryFiles
    /\ p \in summaryFiles => p \in textFiles
    /\ p \in textFiles => HasFile(p)

\* process_paper returns False with the given outcome for its paper.
FailsWith(what) ==
  /\ dpc = "process"
  /\ results' = Append(results, FALSE)
  /\ outcome'[CurrentPaper] = what

C33_CandidatePostText ==
  tpc = "summarized" =>
    LET made == post_text[1]
        n == Len(RawText)
    IN /\ made = RawText <=> n <= 130
       /\ n > 130 =>
            /\ Len(made) = (IF n > 277 THEN 277 ELSE n) + 3
            /\ \A i \in 1..(Len(made) - 3) : made[i] = RawText[i]
            /\ \A i \in (Len(made) - 2)..Len(made) : made[i] = 46
       /\ (n > 130 /\ n <= 277) => SubSeq(made, 1, n) = RawText
       /\ Len(made) <= 280

\* A greeting+summary of 131 characters, made into 134 with nothing cut.
C33_Witness ==
  /\ tpc = "summarized"
  /\ Len(RawText) = 131
  /\ Len(post_text[1]) = 134
  /\ SubSeq(post_text[1], 1, 131) = RawText

\* C34: when the loop of a pass has ended, the orchestrator has waited after
\* every keyword set that it ran except the last one that it ran, and after
\* that one it has not.
C34_WaitBetweenSets ==
  opc \in {"savets", "done"} =>
    /\ Len(ranOrder) <= 1 => waitedAfter = <<>>
    /\ Len(ranOrder) > 1 => waitedAfter = SubSeq(ranOrder, 1, Len(ranOrder) - 1)

C36_NoInterference ==
  /\ \A i \in Procs : cresult[i] = Some(FALSE) => cownFailure[i]
  /\ (\E i \in Procs : cresult[i] = Some(TRUE)) => ConPaper \in markers

\* Both invocations took the paper through the pipeline, publish included.
C36_BothPublished ==
  /\ \A i \in Procs : cresult[i] = Some(TRUE) /\ cpubCalls[i] = 1
  /\ published[ConPaper] = "again"
  /\ ConPaper \in markers

CompletedEarlierInPass == all_new_processed_ids \cap markers

\* C38: within one pass of the orchestrator, a paper whose pipeline
\* completed under an earlier keyword set is not selected again by a later
\* keyword set of the pass, although the preloaded ids handed to every set
\* are those loaded at the start of the pass.
C38_NotProcessedAgainInPass ==
  [][\A p \in CompletedEarlierInPass :
       outcome[p] = "none" => outcome'[p] = "none"]_vars

\* A later keyword set finds a paper completed under an earlier set of the
\* pass, which the preloaded ids do not hold, and passes it over.
C38_Witness ==
  /\ opc = "subprocess" /\ dpc = "select" /\ selIdx > 1
  /\ papers[selIdx - 1] \in CompletedEarlierInPass
  /\ args.processed_ids = processed_ids
  /\ papers[selIdx - 1] \notin args.processed_ids
  /\ outcome[papers[selIdx - 1]] = "none"

\* The step of main that saves the ledger ids at the end of a pass.
SavesIds == opc = "loop" /\ opc' = "savets"

C40_DerivationsAgree ==
  lpc = "named" => resolved_id = arxiv_id_without_ext

\* The derivations agree on a locator whose last part keeps a character that
\* is not "." once its ".pdf" is cut, with and without the extension.
C40_AgreeOnNames ==
  (lpc = "named" /\ \E i \in 1..Len(resolved_id) : resolved_id[i] # Dot)
    => resolved_id = arxiv_id_without_ext

====
